---- MODULE Spec2Model ----
(***************************************************************************)
(* Jimeng Lip-Sync Preprocessor: the audio engine of AudioProcessor        *)
(* (split points, autoDetectSplits, generateSegments, sliceAudio,          *)
(* bufferToWav).                                                           *)
(*                                                                         *)
(* Time.  Every time value of the program (asset.duration, split points,   *)
(* currentTime, config.maxSegmentDuration) is a JavaScript number of       *)
(* seconds.  The model keeps them as exact rationals: a time is an integer *)
(* number of ticks, and one sample period is SubTicks ticks, so that one   *)
(* second is TPS(sampleRate) = sampleRate * SubTicks ticks.  Times that    *)
(* fall between two samples are therefore representable and every          *)
(* Math.floor of the code is computed, not assumed away.  IEEE rounding of *)
(* the double arithmetic is not modelled.                                  *)
(*                                                                         *)
(* Sample rate.  A decoded AudioBuffer has the rate of its AudioContext    *)
(* (thousands of Hz), so Math.floor(0.1 * sampleRate) >= 1.  The model     *)
(* uses the smallest rates that keep that property.                        *)
(***************************************************************************)
EXTENDS Integers, Sequences, FiniteSets, TLC

\* ------------------------------------------------------------------ bounds
SubTicks == 2
PatLen == 2
MaxAmp == 1
MaxSeconds == 3
MaxDurQuarters == 6
MaxIds == 1

\* 0.1s is one sample at 10 Hz and three samples at 30 Hz
SampleRates == {10, 30}
\* a sample is silent or loud; a buffer may have its polarity reversed
Amps == {0, MaxAmp}
Polarities == {1, 0 - 1}

VARIABLES
  sampleRate,   \* asset.buffer.sampleRate
  buffer,       \* asset.buffer.getChannelData(0), amplitudes in units of 1/MaxAmp
  asset,        \* the AudioAsset held by App: duration, splitPoints, segments, id, name, url
  maxDur,       \* config.maxSegmentDuration, in ticks
  currentTime,  \* AudioProcessor currentTime state, in ticks
  pc,           \* handler in progress: "idle", "find" (autoDetectSplits), "gen" (generateSegments)
  currentPos,   \* autoDetectSplits: let currentPos
  newSplits,    \* autoDetectSplits: const newSplits
  genAsset,     \* generateSegments: the asset captured by the closure
  points,       \* generateSegments: const points
  genI,         \* generateSegments: loop index i (1-based)
  newSegments,  \* generateSegments: const newSegments
  nextId,       \* number of segment ids handed out by crypto.randomUUID
  history,      \* the batch handlers (autoDetectSplits, generateSegments) completed since the
                \* split list was last edited by hand, most recent last, at most two
  abuffer,      \* bufferToWav: the AudioBuffer to serialise (samples in units of 1/SampleDen)
  wav,          \* bufferToWav: the bytes of the Blob, as header fields and 16-bit data words
  source,       \* sliceAudio: the AudioBuffer passed as buffer (asset.buffer, the
                \* parentBuffer of AudioSegmentPreview)
  sliceStart,   \* sliceAudio, AudioSegmentPreview: start, in ticks of source.sampleRate
  sliceEnd,     \* sliceAudio, AudioSegmentPreview: end, in ticks of source.sampleRate
  sliceOutcome, \* sliceAudio: "pending" before the call, then "resolved" or the name of the
                \* exception that rejected the promise
  video,        \* the HTMLVideoElement's media: duration and frames (times in hundredths of a second)
  position,     \* video.currentTime as the element holds it after the last seek
  isExtracting, \* VideoProcessor isExtracting state
  vpc,          \* extractLastFrame: "idle", "seeking" (findGoodFrame waits for seeked),
                \* "encoding" (canvas.toBlob waits for its callback)
  time,         \* findGoodFrame: the time argument of the closure installed as video.onseeked
  seeksIssued,  \* number of assignments video.currentTime = time made so far
  seeksAnswered,\* number of seeked events delivered to video.onseeked so far
  seeksAborted, \* number of seeks of findGoodFrame that a later seek replaced before their seeked event
  userSeeking,  \* a seek made through the player's controls awaits its seeked event
  probes,       \* the frames probed by the current run: time, position and darkness, in order
  canvasImage,  \* what ctx.drawImage last put on the canvas
  lastFrame,    \* asset.lastFrame after onUpdate (timestamp, image), or NoFrame
  runs,         \* number of clicks on Auto-Extract Last Frame
  activePlayingId, \* AudioProcessor activePlayingId state: Null, Original, a segment's id, or ""
  playing,      \* the ids of the mounted <audio> elements that are playing (not paused, not ended)
  ended,        \* the ids of the mounted <audio> elements whose ended event is still to be delivered
  state,        \* App state: audio, video, status, progress, error (config is maxDur)
  uploads,      \* the calls of handleAudioUpload: where each one stands, the state.audio it
                \* started from, and whether state.audio was written while it was decoding
  canvasWidth,  \* waveform effect: canvas.width
  columns       \* waveform effect: the (min, max) pair of the line drawn at each x, in
                \* units of 1/SampleDen, and whether the effect has drawn

vars == <<sampleRate, buffer, asset, maxDur, currentTime, pc, currentPos, newSplits,
          genAsset, points, genI, newSegments, nextId, history, abuffer, wav,
          source, sliceStart, sliceEnd, sliceOutcome,
          video, position, isExtracting, vpc, time, seeksIssued, seeksAnswered, seeksAborted, userSeeking,
          probes, canvasImage, lastFrame, runs,
          canvasWidth, columns, activePlayingId, playing, ended, state, uploads>>

playVars == <<activePlayingId, playing, ended>>
appVars == <<state, uploads>>
audioProcessorVars == <<sampleRate, buffer, asset, maxDur, currentTime, pc, currentPos, newSplits,
                        genAsset, points, genI, newSegments, nextId, history>>
findVars == <<currentPos, newSplits>>
genVars == <<genAsset, points, genI, newSegments>>
wavVars == <<abuffer, wav, source, sliceStart, sliceEnd, sliceOutcome>>
videoVars == <<video, position, isExtracting, vpc, time, seeksIssued, seeksAnswered, seeksAborted,
               userSeeking, probes, canvasImage, lastFrame, runs>>
waveVars == <<canvasWidth, columns>>
audioVars == <<sampleRate, buffer, asset, maxDur, currentTime, pc, currentPos, newSplits,
               genAsset, points, genI, newSegments, nextId, history, playVars, appVars>>

\* ----------------------------------------------------------------- helpers
Min(a, b) == IF a < b THEN a ELSE b
Max(a, b) == IF a > b THEN a ELSE b
Abs(x) == IF x < 0 THEN 0 - x ELSE x

\* history keeps the last two completed handlers
Record(h, op) == IF Len(h) < 2 THEN Append(h, op) ELSE Append(Tail(h), op)
Last(h) == IF Len(h) = 0 THEN "none" ELSE h[Len(h)]

\* ticks per second
TPS(sr) == sr * SubTicks

\* Math.floor(0.1 * sampleRate)
ChunkSize(sr) == sr \div 10

\* a buffer of len samples repeating the pattern pat with polarity sign
MkBuffer(len, pat, sign) == [i \in 1..len |-> sign * pat[((i - 1) % PatLen) + 1]]

\* audioBuffer.duration = length / sampleRate
BufferDuration(buf) == Len(buf) * SubTicks

\* ------------------------------------------------------ exclusive playback
\* the values of activePlayingId: null, 'original', the empty string that the
\* segment previews pass on ended, and the UUID of the n-th segment created
Null == <<"null", 0>>
Original == <<"original", 0>>
EmptyString == <<"", 0>>
SegmentId(n) == <<"uuid", n>>

\* the ids of the <audio> elements on the page: the original's and one per
\* AudioSegmentPreview of asset.segments
AudioElements(a) == {Original} \cup {SegmentId(a.segments[i].id) : i \in 1..Len(a.segments)}

\* whether the play/pause effect of element e runs when activePlayingId goes
\* from old to new: the original's depends on activePlayingId, a preview's on
\* isCurrentlyPlaying = (activePlayingId === id)
EffectRuns(e, old, new) ==
  IF e = Original THEN old # new ELSE (old = e) # (new = e)

\* mutant of the effects: play() is called, pause() never
AfterEffects_NoPause(now, old, new, mounted) ==
  {e \in mounted : e \in now \/ new = e}

\* the elements playing once the effects of a render have run: an element
\* whose effect runs is played if it is the active one and paused otherwise;
\* a newly mounted preview is paused; an unmounted element stops
AfterEffects(now, old, new, mounted) ==
  {e \in mounted : IF EffectRuns(e, old, new) THEN new = e ELSE e \in now}

\* if (activePlayingId === id) setActivePlayingId(null) else setActivePlayingId(id)
Toggled(active, id) == IF active = id THEN Null ELSE id

\* handleTogglePlay(id), from the play button of the original or of a preview
handleTogglePlay ==
  /\ pc = "idle"
  /\ \E id \in AudioElements(asset) :
       /\ activePlayingId' = Toggled(activePlayingId, id)
       /\ playing' = AfterEffects(playing, activePlayingId, activePlayingId', AudioElements(asset))
  /\ UNCHANGED <<ended, appVars, wavVars, videoVars, waveVars, sampleRate, buffer, asset, maxDur, currentTime,
                 pc, findVars, genVars, nextId, history>>

\* a playing element reaches the end of its media: it stops and queues its ended event
mediaEnded ==
  /\ \E e \in playing :
       /\ playing' = playing \ {e}
       /\ ended' = ended \cup {e}
  /\ UNCHANGED <<activePlayingId, appVars, wavVars, videoVars, waveVars, sampleRate, buffer, asset, maxDur,
                 currentTime, pc, findVars, genVars, nextId, history>>

\* onEnded={() => setActivePlayingId(null)} of the original,
\* onEnded={() => onTogglePlay('')} of a preview
onEnded ==
  /\ pc = "idle"
  /\ \E e \in ended :
       /\ ended' = ended \ {e}
       /\ activePlayingId' = IF e = Original THEN Null ELSE Toggled(activePlayingId, EmptyString)
       /\ playing' = AfterEffects(playing, activePlayingId, activePlayingId', AudioElements(asset))
  /\ UNCHANGED <<appVars, wavVars, videoVars, waveVars, sampleRate, buffer, asset, maxDur, currentTime,
                 pc, findVars, genVars, nextId, history>>

\* ------------------------------------------------------- autoDetectSplits
\* const searchWindow = Math.min(5, maxDur / 2), in half ticks
SearchWindow2(md, sr) == Min(2 * 5 * TPS(sr), md)

\* mutant of searchStartSec: the one-second floor lost
SearchStartSec2_NoFloor(cur, md, sr) ==
  Max(2 * cur, 2 * (cur + md) - SearchWindow2(md, sr))

\* const searchStartSec = Math.max(currentPos + 1, currentPos + maxDur - searchWindow), in half ticks
SearchStartSec2(cur, md, sr) ==
  Max(2 * (cur + TPS(sr)), 2 * (cur + md) - SearchWindow2(md, sr))

\* const searchEndSec = currentPos + maxDur
SearchEndSec(cur, md) == cur + md

\* const startSample = Math.floor(searchStartSec * sampleRate)
StartSample(cur, md, sr) == SearchStartSec2(cur, md, sr) \div (2 * SubTicks)

\* const endSample = Math.floor(searchEndSec * sampleRate)
EndSample(cur, md) == SearchEndSec(cur, md) \div SubTicks

\* for (let i = 0; i < chunkSize; i++) energy += Math.abs(buffer[s + i])
RECURSIVE Energy(_, _, _)
Energy(buf, s, n) ==
  IF n = 0 THEN 0 ELSE Energy(buf, s, n - 1) + Abs(buf[s + n])

\* mutant: energy <= minEnergy keeps the last minimum
EnergyLess_OrEqual(e, minEnergy) == minEnergy.inf \/ e <= minEnergy.v

\* energy < minEnergy, minEnergy starting at Infinity
EnergyLess(e, minEnergy) == minEnergy.inf \/ e < minEnergy.v

\* the for loop over s: returns bestTime (ticks)
RECURSIVE ScanChunks(_, _, _, _, _, _)
ScanChunks(buf, s, endSample, chunkSize, minEnergy, bestTime) ==
  IF ~(s < endSample) THEN bestTime
  ELSE IF s + chunkSize > Len(buf) THEN bestTime
  ELSE LET energy == Energy(buf, s, chunkSize) IN
       IF EnergyLess(energy, minEnergy)
       THEN ScanChunks(buf, s + chunkSize, endSample, chunkSize,
                       [inf |-> FALSE, v |-> energy], s * SubTicks)
       ELSE ScanChunks(buf, s + chunkSize, endSample, chunkSize, minEnergy, bestTime)

\* mutant: let bestTime = currentPos
BestTime_FromCursor(buf, sr, cur, md) ==
  ScanChunks(buf, StartSample(cur, md, sr), EndSample(cur, md), ChunkSize(sr),
             [inf |-> TRUE, v |-> 0], cur)

\* the body of the while loop: the value pushed to newSplits
BestTime(buf, sr, cur, md) ==
  ScanChunks(buf, StartSample(cur, md, sr), EndSample(cur, md), ChunkSize(sr),
             [inf |-> TRUE, v |-> 0], cur + md)

\* mutants of the loop condition: <= for <; the budget counted twice; no budget
LoopGuard_Inclusive(cur, md, total) == cur + md <= total

LoopGuard_TwoBudgets(cur, md, total) == cur + md + md < total

LoopGuard_NoBudget(cur, md, total) == cur < total

\* while (currentPos + maxDur < totalDuration)
LoopGuard(cur, md, total) == cur + md < total

autoDetectSplits_begin ==
  /\ pc = "idle"
  /\ pc' = "find"
  /\ currentPos' = 0
  /\ newSplits' = <<>>
  /\ UNCHANGED <<playVars, appVars, wavVars, videoVars, waveVars, sampleRate, buffer, asset, maxDur, currentTime, genVars, nextId, history>>

autoDetectSplits_iter ==
  /\ pc = "find"
  /\ LoopGuard(currentPos, maxDur, asset.duration)
  /\ LET bestTime == BestTime(buffer, sampleRate, currentPos, maxDur) IN
       /\ newSplits' = Append(newSplits, bestTime)
       /\ currentPos' = bestTime
  /\ UNCHANGED <<playVars, appVars, wavVars, videoVars, waveVars, sampleRate, buffer, asset, maxDur, currentTime, pc, genVars, nextId, history>>

\* mutant of the update: the old segments are kept
AutoDetectUpdate_KeepSegments(a, splits) == [a EXCEPT !.splitPoints = splits]

\* { ...asset, splitPoints: newSplits, segments: [] }
AutoDetectUpdate(a, splits) == [a EXCEPT !.splitPoints = splits, !.segments = <<>>]

\* onUpdate({ ...asset, splitPoints: newSplits, segments: [] })
autoDetectSplits_end ==
  /\ pc = "find"
  /\ ~LoopGuard(currentPos, maxDur, asset.duration)
  /\ asset' = AutoDetectUpdate(asset, newSplits)
  /\ pc' = "idle"
  /\ history' = Record(history, "autoDetectSplits")
  /\ currentPos' = 0
  /\ newSplits' = <<>>
  /\ playing' = AfterEffects(playing, activePlayingId, activePlayingId, AudioElements(asset'))
  /\ ended' = ended \cap AudioElements(asset')
  /\ UNCHANGED <<activePlayingId, appVars, wavVars, videoVars, waveVars, sampleRate, buffer, maxDur, currentTime, genVars, nextId>>

\* ------------------------------------------------------- generateSegments
\* mutants of the sliver test: <= for <; a 0.2s threshold
TooShort_Inclusive(start, end, sr) == 10 * (end - start) <= TPS(sr)

TooShort_Fifth(start, end, sr) == 5 * (end - start) < TPS(sr)

\* if (end - start < 0.1) continue
TooShort(start, end, sr) == 10 * (end - start) < TPS(sr)

\* generateSegments is async, but sliceAudio has no await of its own: every
\* `await sliceAudio(...)` finds a settled promise and resumes in a microtask of
\* the click's task, before any other event handler can run.  The steps below
\* are therefore not interleaved with the other handlers (they wait for
\* pc = "idle"); setActivePlayingId(null) and the closure's asset are taken at
\* the first step.
generateSegments_begin ==
  /\ pc = "idle"
  /\ nextId < MaxIds
  /\ pc' = "gen"
  /\ genAsset' = asset
  /\ points' = <<0>> \o asset.splitPoints \o <<asset.duration>>
  /\ newSegments' = <<>>
  /\ genI' = 1
  /\ activePlayingId' = Null
  /\ playing' = AfterEffects(playing, activePlayingId, Null, AudioElements(asset))
  /\ UNCHANGED <<ended, appVars, wavVars, videoVars, waveVars, sampleRate, buffer, asset, maxDur, currentTime, findVars, nextId, history>>

generateSegments_iter ==
  /\ pc = "gen"
  /\ genI < Len(points)
  /\ LET start == points[genI]
         end == points[genI + 1] IN
       IF TooShort(start, end, sampleRate)
       THEN UNCHANGED <<newSegments, nextId>>
       ELSE /\ newSegments' = Append(newSegments,
                                     [id |-> nextId + 1, start |-> start, end |-> end])
            /\ nextId' = nextId + 1
  /\ genI' = genI + 1
  /\ UNCHANGED <<playVars, appVars, wavVars, videoVars, waveVars, sampleRate, buffer, asset, maxDur, currentTime, pc, findVars,
                 genAsset, points, history>>

\* onUpdate({ ...asset, segments: newSegments })
generateSegments_end ==
  /\ pc = "gen"
  /\ ~(genI < Len(points))
  /\ asset' = [genAsset EXCEPT !.segments = newSegments]
  /\ pc' = "idle"
  /\ history' = Record(history, "generateSegments")
  /\ genAsset' = asset'
  /\ points' = <<>>
  /\ genI' = 1
  /\ newSegments' = <<>>
  /\ playing' = AfterEffects(playing, activePlayingId, activePlayingId, AudioElements(asset'))
  /\ ended' = ended \cap AudioElements(asset')
  /\ UNCHANGED <<activePlayingId, appVars, wavVars, videoVars, waveVars, sampleRate, buffer, maxDur, currentTime, findVars, nextId>>

\* ------------------------------------------------ the split finder pipeline
\* handleAudioUpload: the asset built from a decoded buffer
NewAsset(buf) ==
  [id |-> "a1", name |-> "audio", url |-> "blob:a1",
   duration |-> BufferDuration(buf), splitPoints |-> <<>>, segments |-> <<>>]

\* maxSegmentSeconds > 0: quarter seconds, whole or not in sample periods
MaxDurInputs(sr) == {(k * TPS(sr)) \div 4 : k \in 1..MaxDurQuarters}

\* no WAV serialisation in progress
\* asset.lastFrame before any extraction
NoFrame == [timestamp |-> 0, image |-> <<>>, set |-> FALSE]

\* no video asset is mounted
NoVideo ==
  /\ video = [duration |-> 0, darkFrom |-> 0, head |-> <<>>, tail |-> <<>>]
  /\ position = 0
  /\ isExtracting = FALSE
  /\ vpc = "idle"
  /\ time = 0
  /\ seeksIssued = 0
  /\ seeksAnswered = 0
  /\ seeksAborted = 0
  /\ userSeeking = FALSE
  /\ probes = <<>>
  /\ canvasImage = <<>>
  /\ lastFrame = NoFrame
  /\ runs = 0

\* a canvas no effect has drawn on yet; the effects return normally or not at all
\* (no throw statement, no error state), so error never leaves "none"
Undrawn == [drawn |-> FALSE, effect |-> "none", error |-> "none", lines |-> <<>>]

\* no waveform has been drawn
NoWaveform ==
  /\ canvasWidth = 1
  /\ columns = Undrawn

\* the header fields bufferToWav writes, in file order
NoHeader ==
  [chunkSize |-> 0, subchunk1Size |-> 0, audioFormat |-> 0, numChannels |-> 0, sampleRate |-> 0,
   byteRate |-> 0, blockAlign |-> 0, bitsPerSample |-> 0, subchunk2Size |-> 0]

\* no Blob has been built yet
Unwritten == [written |-> FALSE, length |-> 0, header |-> NoHeader, data |-> <<>>]

NoWav ==
  /\ abuffer = [numberOfChannels |-> 1, length |-> 1, sampleRate |-> 10, channels |-> << <<0>> >>]
  /\ wav = Unwritten
  /\ source = abuffer
  /\ sliceStart = 0
  /\ sliceEnd = 0
  /\ sliceOutcome = "pending"

\* ------------------------------------------------------- App: the uploads
MaxUploads == 3

\* error: "Failed to process audio file."
ErrorMessage == <<"Failed to process audio file.", 0>>

\* the AudioAsset and the VideoAsset built from the u-th file
AudioAssetOf(u) == <<"audio", u>>
VideoAssetOf(u) == <<"video", u>>

\* useState<AppState>({ audio: null, video: null, status: IDLE, progress: 0, error: null, ... })
InitialState ==
  [audio |-> Null, video |-> Null, status |-> "IDLE", progress |-> 0, error |-> Null]

\* no file has been handed to handleAudioUpload
NoUploads ==
  [u \in 1..MaxUploads |-> [phase |-> "none", before |-> Null, overtaken |-> FALSE]]

\* App once the first audio file is decoded and AudioProcessor is shown
Uploaded ==
  /\ state = [audio |-> AudioAssetOf(1), video |-> Null, status |-> "COMPLETED",
              progress |-> 100, error |-> Null]
  /\ uploads = [NoUploads EXCEPT ![1].phase = "completed"]

\* setState(prev => ({ ...prev, status: PROCESSING, progress: 10, error: null }))
StartUpdate(prev) == [prev EXCEPT !.status = "PROCESSING", !.progress = 10, !.error = Null]

\* setState(prev => ({ ...prev, audio: audioAsset, status: COMPLETED, progress: 100 }))
DecodedUpdate(prev, audioAsset) ==
  [prev EXCEPT !.audio = audioAsset, !.status = "COMPLETED", !.progress = 100]

\* mutant of the catch branch: the stored audio is dropped
CatchUpdate_DropsAudio(prev) ==
  [prev EXCEPT !.audio = Null, !.status = "ERROR", !.error = ErrorMessage]

\* setState(prev => ({ ...prev, status: ERROR, error: "Failed to process audio file." }))
CatchUpdate(prev) == [prev EXCEPT !.status = "ERROR", !.error = ErrorMessage]

\* another call of handleAudioUpload wrote state.audio while u was decoding
Overtake(ups, u) ==
  [v \in 1..MaxUploads |->
     IF v # u /\ ups[v].phase = "decoding" THEN [ups[v] EXCEPT !.overtaken = TRUE] ELSE ups[v]]

\* handleAudioUpload(file) up to the first await; FileUploader is rendered
\* while state.audio is null, also while an earlier file is still decoding
handleAudioUpload ==
  /\ state.audio = Null
  /\ \E u \in 1..MaxUploads :
       /\ uploads[u].phase = "none"
       /\ \A v \in 1..(u - 1) : uploads[v].phase # "none"
       /\ uploads' = [uploads EXCEPT ![u] = [phase |-> "decoding", before |-> state.audio,
                                             overtaken |-> FALSE]]
  /\ state' = StartUpdate(state)
  /\ UNCHANGED <<audioProcessorVars, playVars, wavVars, videoVars, waveVars>>

\* file.arrayBuffer() and decodeAudioData resolved: the asset is stored
handleAudioUpload_decoded ==
  /\ \E u \in 1..MaxUploads :
       /\ uploads[u].phase = "decoding"
       /\ state' = DecodedUpdate(state, AudioAssetOf(u))
       /\ uploads' = [Overtake(uploads, u) EXCEPT ![u].phase = "completed"]
  /\ UNCHANGED <<audioProcessorVars, playVars, wavVars, videoVars, waveVars>>

\* new AudioContext, file.arrayBuffer() or decodeAudioData threw: the catch branch
handleAudioUpload_catch ==
  /\ \E u \in 1..MaxUploads :
       /\ uploads[u].phase = "decoding"
       /\ state' = CatchUpdate(state)
       /\ uploads' = [uploads EXCEPT ![u].phase = "failed"]
  /\ UNCHANGED <<audioProcessorVars, playVars, wavVars, videoVars, waveVars>>

\* handleVideoUpload(file): both setState calls, no await in between
handleVideoUpload ==
  /\ state.video = Null
  /\ state' = [StartUpdate(state) EXCEPT !.video = VideoAssetOf(1), !.status = "COMPLETED",
                                          !.progress = 100]
  /\ UNCHANGED <<uploads, audioProcessorVars, playVars, wavVars, videoVars, waveVars>>

\* const clearAudio = () => setState(prev => ({ ...prev, audio: null }))
clearAudio ==
  /\ state.audio # Null
  /\ state' = [state EXCEPT !.audio = Null]
  /\ UNCHANGED <<uploads, audioProcessorVars, playVars, wavVars, videoVars, waveVars>>

\* const clearVideo = () => setState(prev => ({ ...prev, video: null }))
clearVideo ==
  /\ state.video # Null
  /\ state' = [state EXCEPT !.video = Null]
  /\ UNCHANGED <<uploads, audioProcessorVars, playVars, wavVars, videoVars, waveVars>>

\* AudioProcessor freshly mounted on the asset a: no handler has run
MountedOn(a) ==
  /\ asset = a
  /\ currentTime = 0
  /\ pc = "idle"
  /\ currentPos = 0
  /\ newSplits = <<>>
  /\ genAsset = asset
  /\ points = <<>>
  /\ genI = 1
  /\ newSegments = <<>>
  /\ nextId = 0
  /\ history = <<>>
  /\ activePlayingId = Null
  /\ playing = {}
  /\ ended = {}

\* AudioProcessor freshly mounted on an uploaded asset
Mounted == Uploaded /\ MountedOn(NewAsset(buffer))

InitFind ==
  /\ sampleRate \in SampleRates
  /\ \E len \in 1..(MaxSeconds * sampleRate), pat \in [1..PatLen -> Amps], sign \in Polarities :
       buffer = MkBuffer(len, pat, sign)
  /\ maxDur \in MaxDurInputs(sampleRate)
  /\ Mounted
  /\ NoWav
  /\ NoVideo
  /\ NoWaveform

\* the same inputs at the lowest rate, with non-negative samples only
InitTerm ==
  /\ InitFind
  /\ \A r \in SampleRates : sampleRate <= r
  /\ \A i \in 1..Len(buffer) : buffer[i] >= 0

NextFind ==
  \/ autoDetectSplits_begin
  \/ autoDetectSplits_iter
  \/ autoDetectSplits_end
  \/ generateSegments_begin
  \/ generateSegments_iter
  \/ generateSegments_end

SpecFind == InitFind /\ [][NextFind]_vars

\* --------------------------------------------- a 35-second buffer, 10s budget
\* sample indices that may be silent: every 2.5s, and the 9.6s, 19.8s and 29.9s
\* the silence clusters of the worked example sit at
QuietSpots(sr) == {(k * 5 * sr) \div 2 : k \in 2..11} \cup {(96 * sr) \div 10, (198 * sr) \div 10, (299 * sr) \div 10}

\* a loud buffer that is silent at the samples of quiet
MkQuiet(len, quiet) == [i \in 1..len |-> IF (i - 1) \in quiet THEN 0 ELSE MaxAmp]

Init35 ==
  /\ sampleRate = 10
  /\ \E quiet \in SUBSET QuietSpots(sampleRate) :
       /\ Cardinality(quiet) <= 3
       /\ buffer = MkQuiet(35 * sampleRate, quiet)
  /\ maxDur = 10 * TPS(sampleRate)
  /\ Mounted
  /\ NoWav
  /\ NoVideo
  /\ NoWaveform

Spec35 == Init35 /\ [][NextFind]_vars

\* ------------------------------------------ AudioProcessor: manual editing
MaxSplits == 2
UiSeconds == 6

\* the times the playhead is sampled at (onTimeUpdate), the media element's own
\* duration possibly one tick past the decoded buffer's
TimeInputs(dur) == {0, 1, dur \div 2, dur, dur + 1}

\* the values of the Max Segment Duration slider that are modelled (min and max)
SliderSeconds == {5, 30}

\* [...].sort((a, b) => a - b)
SortPoints(sp) == SortSeq(sp, LAMBDA a, b : a < b)

\* asset.splitPoints.includes(t)
Includes(sp, t) == \E i \in 1..Len(sp) : sp[i] = t

\* asset.splitPoints.filter(p => p !== point)
RECURSIVE FilterOut(_, _)
FilterOut(sp, point) ==
  IF sp = <<>> THEN <<>>
  ELSE (IF Head(sp) # point THEN <<Head(sp)>> ELSE <<>>) \o FilterOut(Tail(sp), point)

\* Math.max(0, Math.min(asset.duration, x))
ClampTime(x, dur) == Max(0, Min(dur, x))

\* onTimeUpdate={(e) => setCurrentTime(e.currentTarget.currentTime)}
onTimeUpdate ==
  /\ pc = "idle"
  /\ \E t \in TimeInputs(asset.duration) : currentTime' = t
  /\ currentTime' # currentTime
  /\ UNCHANGED <<playVars, appVars, wavVars, videoVars, waveVars, sampleRate, buffer, asset, maxDur, pc, findVars, genVars, nextId, history>>

\* onUpdateConfig({ maxSegmentDuration: parseInt(e.target.value) })
updateConfig ==
  /\ pc = "idle"
  /\ \E sec \in SliderSeconds : maxDur' = sec * TPS(sampleRate)
  /\ maxDur' # maxDur
  /\ UNCHANGED <<playVars, appVars, wavVars, videoVars, waveVars, sampleRate, buffer, asset, currentTime, pc, findVars, genVars, nextId, history>>

\* addSplitPoint(), called without argument by the Manual Split button
addSplitPoint ==
  /\ pc = "idle"
  /\ Len(asset.splitPoints) < MaxSplits
  /\ LET t == ClampTime(currentTime, asset.duration) IN
       /\ ~Includes(asset.splitPoints, t)
       /\ asset' = [asset EXCEPT !.splitPoints = SortPoints(Append(asset.splitPoints, t))]
  /\ history' = <<>>
  /\ UNCHANGED <<playVars, appVars, wavVars, videoVars, waveVars, sampleRate, buffer, maxDur, currentTime, pc, findVars, genVars, nextId>>

\* removeSplitPoint(p), p a marker of the list
removeSplitPoint ==
  /\ pc = "idle"
  /\ \E i \in 1..Len(asset.splitPoints) :
       asset' = [asset EXCEPT !.splitPoints = FilterOut(asset.splitPoints, asset.splitPoints[i])]
  /\ history' = <<>>
  /\ UNCHANGED <<playVars, appVars, wavVars, videoVars, waveVars, sampleRate, buffer, maxDur, currentTime, pc, findVars, genVars, nextId>>

\* adjustSplitPoint(point, delta): the point moved onto one of the sampled times
AdjustedPoints(sp, point, delta, dur) ==
  LET newPoint == ClampTime(point + delta, dur) IN
    SortPoints([i \in 1..Len(sp) |-> IF sp[i] = point THEN newPoint ELSE sp[i]])

adjustSplitPoint ==
  /\ pc = "idle"
  /\ \E i \in 1..Len(asset.splitPoints), target \in TimeInputs(asset.duration) :
       LET point == asset.splitPoints[i]
           delta == target - point IN
         /\ delta # 0
         /\ asset' = [asset EXCEPT
                        !.splitPoints = AdjustedPoints(asset.splitPoints, point, delta, asset.duration)]
  /\ history' = <<>>
  /\ UNCHANGED <<playVars, appVars, wavVars, videoVars, waveVars, sampleRate, buffer, maxDur, currentTime, pc, findVars, genVars, nextId>>

\* App after handleAudioUpload, config.maxSegmentDuration at its default of 30
Init ==
  /\ sampleRate = 10
  /\ \E len \in {1, UiSeconds * sampleRate}, pat \in [1..PatLen -> Amps] :
       buffer = MkBuffer(len, pat, 1)
  /\ maxDur = 30 * TPS(sampleRate)
  /\ Mounted
  /\ NoWav
  /\ NoVideo
  /\ NoWaveform

Next ==
  \/ onTimeUpdate
  \/ updateConfig
  \/ addSplitPoint
  \/ removeSplitPoint
  \/ adjustSplitPoint
  \/ autoDetectSplits_begin
  \/ autoDetectSplits_iter
  \/ autoDetectSplits_end
  \/ generateSegments_begin
  \/ generateSegments_iter
  \/ generateSegments_end

Spec == Init /\ [][Next]_vars

\* ------------------------------------------- AudioProcessor: the play buttons
\* the editing model's asset with the slider at either end, played and re-cut
InitPlay ==
  /\ sampleRate = 10
  /\ \E len \in {1, UiSeconds * sampleRate}, pat \in [1..PatLen -> Amps] :
       buffer = MkBuffer(len, pat, 1)
  /\ \E sec \in SliderSeconds : maxDur = sec * TPS(sampleRate)
  /\ Mounted
  /\ NoWav
  /\ NoVideo
  /\ NoWaveform

NextPlay ==
  \/ handleTogglePlay
  \/ mediaEnded
  \/ onEnded
  \/ autoDetectSplits_begin
  \/ autoDetectSplits_iter
  \/ autoDetectSplits_end
  \/ generateSegments_begin
  \/ generateSegments_iter
  \/ generateSegments_end

SpecPlay == InitPlay /\ [][NextPlay]_vars

\* ------------------------------------- generateSegments on any split list
\* the buffers cut: 0.4s of silence
CutTenths == 4

\* the ascending lists of at most MaxSplits times within [0, dur]
AscendingLists(dur) ==
  {sp \in UNION {[1..n -> 0..dur] : n \in 0..MaxSplits} :
     \A i \in 1..Len(sp), j \in 1..Len(sp) : i < j => sp[i] <= sp[j]}

InitCut ==
  /\ sampleRate \in SampleRates
  /\ buffer = [i \in 1..(CutTenths * ChunkSize(sampleRate)) |-> 0]
  /\ maxDur = 30 * TPS(sampleRate)
  /\ \E sp \in AscendingLists(BufferDuration(buffer)) :
       MountedOn([NewAsset(buffer) EXCEPT !.splitPoints = sp])
  /\ Uploaded
  /\ NoWav
  /\ NoVideo
  /\ NoWaveform

NextCut ==
  \/ generateSegments_begin
  \/ generateSegments_iter
  \/ generateSegments_end

SpecCut == InitCut /\ [][NextCut]_vars

\* ------------------------------------------------------------ App: uploads
\* App as first rendered: nothing uploaded, no processor mounted
InitApp ==
  /\ state = InitialState
  /\ uploads = NoUploads
  /\ sampleRate = 10
  /\ buffer = <<0>>
  /\ maxDur = 30 * TPS(sampleRate)
  /\ MountedOn(NewAsset(buffer))
  /\ NoWav
  /\ NoVideo
  /\ NoWaveform

NextApp ==
  \/ handleAudioUpload
  \/ handleAudioUpload_decoded
  \/ handleAudioUpload_catch
  \/ handleVideoUpload
  \/ clearAudio
  \/ clearVideo

SpecApp == InitApp /\ [][NextApp]_vars

\* ------------------------------------------------------------ bufferToWav
SampleDen == 4
MaxFrames == 2
MaxChannels == 2

\* float samples n / SampleDen, some of them outside [-1, 1]
SampleNums == (0 - SampleDen - 1)..(SampleDen + 1)

NegScale == 32768
PosScale == 32767

\* x | 0 for the rational x = num / den: truncation toward zero (|x| <= 32768
\* after the clamp, so the reduction to 32 bits changes nothing)
TruncDiv(num, den) == IF num >= 0 THEN num \div den ELSE 0 - ((0 - num) \div den)

\* view.setInt16: the low 16 bits as a signed value
ToInt16(x) == ((x + 32768) % 65536) - 32768

ClampSample_Identity(n) == n

\* sample = Math.max(-1, Math.min(1, channels[i][offset]))
ClampSample(n) == Max(0 - SampleDen, Min(SampleDen, n))

\* 0.5 + sample < 0, for sample = n / SampleDen
ScalesBy32768(n) == SampleDen + 2 * n < 0

\* sample = (0.5 + sample < 0 ? sample * 32768 : sample * 32767)|0; view.setInt16(pos, sample, true)
QuantizeSample(n) ==
  LET sample == ClampSample(n) IN
    ToInt16(TruncDiv(IF ScalesBy32768(sample) THEN sample * NegScale
                                              ELSE sample * PosScale, SampleDen))

\* for (i = 0; i < numOfChan; i++) { ... } of the frame at offset
RECURSIVE FrameWords(_, _, _)
FrameWords(ab, offset, i) ==
  IF i > ab.numberOfChannels THEN <<>>
  ELSE <<QuantizeSample(ab.channels[i][offset])>> \o FrameWords(ab, offset, i + 1)

\* while (pos < length) { ...; offset++ }
RECURSIVE DataWords(_, _)
DataWords(ab, offset) ==
  IF offset > ab.length THEN <<>>
  ELSE FrameWords(ab, offset, 1) \o DataWords(ab, offset + 1)

\* const length = abuffer.length * numOfChan * 2 + 44
WavLength(ab) == ab.length * ab.numberOfChannels * 2 + 44

\* pos when setUint32(length - pos - 4) runs: three Uint32, fmt (4+4+2+2+4+4+2+2), "data"
PosAtDataSize == 40

\* setUint32(length - 8)
RiffChunkSize(length) == length - 8

ByteRate_Mono(ab) == ab.sampleRate * 2

\* setUint32(abuffer.sampleRate * 2 * numOfChan)
ByteRate(ab) == ab.sampleRate * 2 * ab.numberOfChannels

\* setUint16(numOfChan * 2)
BlockAlign(ab) == ab.numberOfChannels * 2

\* setUint32(length - pos - 4)
Subchunk2Size(length) == length - PosAtDataSize - 4

\* the header of bufferToWav (the four tags RIFF, WAVE, "fmt " and data are constants)
WavHeader(ab) ==
  [chunkSize |-> RiffChunkSize(WavLength(ab)), subchunk1Size |-> 16, audioFormat |-> 1,
   numChannels |-> ab.numberOfChannels, sampleRate |-> ab.sampleRate,
   byteRate |-> ByteRate(ab), blockAlign |-> BlockAlign(ab), bitsPerSample |-> 16,
   subchunk2Size |-> Subchunk2Size(WavLength(ab))]

\* new Blob([buffer]) of bufferToWav(ab)
WavBytes(ab) ==
  [written |-> TRUE, length |-> WavLength(ab), header |-> WavHeader(ab), data |-> DataWords(ab, 1)]

\* one call per run: either bufferToWav(abuffer) or sliceAudio(source, sliceStart, sliceEnd)
bufferToWav ==
  /\ ~wav.written
  /\ sliceOutcome = "pending"
  /\ wav' = WavBytes(abuffer)
  /\ UNCHANGED <<abuffer, source, sliceStart, sliceEnd, sliceOutcome, audioVars, videoVars, waveVars>>

\* ------------------------------------------------------------- sliceAudio
\* mutant of frameCount: rounded up
FrameCount_Ceil(start, end) == (end - start + SubTicks - 1) \div SubTicks

\* const frameCount = Math.floor(duration * sampleRate), duration = end - start
FrameCount(start, end) == (end - start) \div SubTicks

\* const offset = Math.floor(start * sampleRate)
SliceOffset(start) == start \div SubTicks

\* new AudioContext().createBuffer(channels, frameCount, sampleRate) throws
\* NotSupportedError for a frame count of zero; a negative count is converted
\* to an unsigned long of more than 2^31 frames, which no engine allocates
CreateBufferThrows(frameCount) == frameCount <= 0

SliceSample_NoFill(channelData, offset, i) == channelData[Min(offset + i + 1, Len(channelData))]

\* if (offset + i < channelData.length) newChannelData[i] = channelData[offset + i]
\* (i is 0-based; a frame that is not assigned keeps the 0 of createBuffer)
SliceSample(channelData, offset, i) ==
  IF offset + i < Len(channelData) THEN channelData[offset + i + 1] ELSE 0

\* newBuffer after the channel loop
NewBuffer(src, start, end) ==
  [numberOfChannels |-> src.numberOfChannels,
   length |-> FrameCount(start, end),
   sampleRate |-> src.sampleRate,
   channels |-> [c \in 1..src.numberOfChannels |->
                   [f \in 1..FrameCount(start, end) |->
                      SliceSample(src.channels[c], SliceOffset(start), f - 1)]]]

sliceAudio ==
  /\ ~wav.written
  /\ sliceOutcome = "pending"
  /\ IF CreateBufferThrows(FrameCount(sliceStart, sliceEnd))
       THEN /\ sliceOutcome' = "NotSupportedError"
            /\ UNCHANGED <<abuffer, wav>>
       ELSE /\ abuffer' = NewBuffer(source, sliceStart, sliceEnd)
            /\ wav' = WavBytes(abuffer')
            /\ sliceOutcome' = "resolved"
  /\ UNCHANGED <<source, sliceStart, sliceEnd, audioVars, videoVars, waveVars>>

\* sample patterns: the sample of channel c, frame f is the k-th value of a walk
\* through SampleNums that starts at n0 and advances by stride
SampleStrides == {0, 1, 3}

PatternSample(n0, stride, k) ==
  (0 - SampleDen - 1) + ((n0 + SampleDen + 1 + stride * k) % (2 * SampleDen + 3))

MkAudioBuffer(nch, len, sr, n0, stride) ==
  [numberOfChannels |-> nch, length |-> len, sampleRate |-> sr,
   channels |-> [c \in 1..nch |-> [f \in 1..len |-> PatternSample(n0, stride, (f - 1) * nch + c - 1)]]]

\* start and end of a direct call: before, inside and after the source buffer
SliceTimes(src) == 0..(src.length * SubTicks + 2 * SubTicks)

InitWav ==
  /\ \E nch \in 1..MaxChannels, len \in 1..MaxFrames, sr \in SampleRates,
        n0 \in SampleNums, stride \in SampleStrides :
       source = MkAudioBuffer(nch, len, sr, n0, stride)
  /\ abuffer = source
  /\ sliceStart \in SliceTimes(source)
  /\ sliceEnd \in SliceTimes(source)
  /\ sliceOutcome = "pending"
  /\ wav = Unwritten
  /\ sampleRate = 10
  /\ buffer = <<0>>
  /\ maxDur = 30 * TPS(sampleRate)
  /\ Mounted
  /\ NoVideo
  /\ NoWaveform

NextWav == bufferToWav \/ sliceAudio

SpecWav == InitWav /\ [][NextWav]_vars

\* ------------------------------------------- VideoProcessor: extractLastFrame
\* Times of the video are hundredths of a second.  The clip has loaded its
\* metadata: a finite duration and frames of at least one pixel.  While a run
\* of extractLastFrame is under way the only seeks are those of findGoodFrame;
\* the player's controls are used between runs (SpecVideoControls).
MaxVideoCs == 90
MaxRuns == 2

StartBackoff == 5
RetryStep == 10
ForcedAccept == 50
DarkThreshold == 10

\* frames as ctx.getImageData delivers them: one <<R, G, B>> per pixel (alpha is not read)
BlackFrame == << <<0, 0, 0>>, <<0, 0, 0>> >>
DimFrame == << <<9, 9, 11>>, <<10, 10, 9>> >>
EdgeFrame == << <<0, 0, 30>>, <<10, 10, 10>> >>
BrightFrame == << <<255, 255, 255>>, <<50, 60, 70>> >>
FrameKinds == {BlackFrame, DimFrame, EdgeFrame, BrightFrame}

\* a clip shows head before darkFrom and tail from darkFrom on
FrameAt(v, p) == IF p >= v.darkFrom THEN v.tail ELSE v.head

\* video.currentTime = time: the element seeks to the nearest position of the media
SeekPosition(t, duration) == Max(0, Min(t, duration))

\* three times totalBrightness: for (i = 0; ...; i += 4) totalBrightness += (R + G + B) / 3
RECURSIVE TotalBrightness3(_, _)
TotalBrightness3(imageData, i) ==
  IF i > Len(imageData) THEN 0
  ELSE imageData[i][1] + imageData[i][2] + imageData[i][3] + TotalBrightness3(imageData, i + 1)

IsDark_Inclusive(imageData) ==
  TotalBrightness3(imageData, 1) <= 3 * DarkThreshold * Len(imageData)

\* avgBrightness < 10, avgBrightness = totalBrightness / (imageData.length / 4)
IsDark(imageData) ==
  TotalBrightness3(imageData, 1) < 3 * DarkThreshold * Len(imageData)

BacksUp_Always(imageData, t) == IsDark(imageData)

\* if (avgBrightness < 10 && time > 0.5)
BacksUp(imageData, t) == IsDark(imageData) /\ t > ForcedAccept

\* let seekTime = duration - 0.05
FirstSeekTime(duration) == duration - StartBackoff

RetryTime_Stay(t) == t

\* findGoodFrame(time - 0.1)
RetryTime(t) == t - RetryStep

ButtonEnabled_Always == TRUE

\* <button onClick={extractLastFrame} disabled={isExtracting}>
ButtonEnabled == ~isExtracting

\* the seeks of findGoodFrame whose seeked event is still to come (the element
\* has one seek under way at most: a new seek replaces the one in progress)
Outstanding == seeksIssued - seeksAnswered - seeksAborted

\* the click handler up to the first await: setIsExtracting(true), the canvas
\* (if (!ctx) return, canvas.getContext('2d') being null when the browser cannot
\* give the canvas a backing store), findGoodFrame(seekTime) assigning
\* video.currentTime and video.onseeked
extractLastFrame ==
  /\ ButtonEnabled
  /\ runs < MaxRuns
  /\ runs' = runs + 1
  /\ isExtracting' = TRUE
  /\ \E ctx \in BOOLEAN :
       IF ctx
       THEN /\ time' = FirstSeekTime(video.duration)
            /\ position' = SeekPosition(time', video.duration)
            /\ seeksIssued' = seeksIssued + 1
            /\ seeksAborted' = seeksAborted + Outstanding
            /\ userSeeking' = FALSE
            /\ vpc' = "seeking"
            /\ probes' = <<>>
       ELSE UNCHANGED <<time, position, seeksIssued, seeksAborted, userSeeking, vpc, probes>>
  /\ UNCHANGED <<video, seeksAnswered, canvasImage, lastFrame, audioVars, wavVars, waveVars>>

\* video.onseeked: draw, measure, then either findGoodFrame(time - 0.1) or canvas.toBlob
onseeked ==
  /\ vpc = "seeking"
  /\ Outstanding > 0
  /\ seeksAnswered' = seeksAnswered + 1
  /\ canvasImage' = [at |-> position, pixels |-> FrameAt(video, position)]
  /\ probes' = Append(probes, [time |-> time, at |-> position, dark |-> IsDark(canvasImage'.pixels)])
  /\ IF BacksUp(canvasImage'.pixels, time)
       THEN /\ time' = RetryTime(time)
            /\ position' = SeekPosition(time', video.duration)
            /\ seeksIssued' = seeksIssued + 1
            /\ UNCHANGED vpc
       ELSE /\ vpc' = "encoding"
            /\ UNCHANGED <<time, position, seeksIssued>>
  /\ UNCHANGED <<video, isExtracting, seeksAborted, userSeeking, lastFrame, runs, audioVars, wavVars, waveVars>>

\* the callback of canvas.toBlob resolves the promise; extractLastFrame resumes:
\* if (result) onUpdate({...asset, duration, lastFrame}); setIsExtracting(false)
toBlobCallback ==
  /\ vpc = "encoding"
  /\ \E blob \in BOOLEAN :
       lastFrame' = IF blob THEN [timestamp |-> time, image |-> canvasImage, set |-> TRUE]
                            ELSE lastFrame
  /\ isExtracting' = FALSE
  /\ vpc' = "idle"
  /\ UNCHANGED <<video, position, time, seeksIssued, seeksAnswered, seeksAborted, userSeeking, probes,
                 canvasImage, runs, audioVars, wavVars, waveVars>>

\* where the dark tail of a clip starts: at once, half way, one or two retry
\* steps before the end
DarkStarts(duration) ==
  {0, duration \div 2, duration - Min(duration, 22), duration - Min(duration, 12)}

InitVideo ==
  /\ \E duration \in 0..MaxVideoCs :
       \E darkFrom \in DarkStarts(duration), head \in FrameKinds, tail \in FrameKinds :
         video = [duration |-> duration, darkFrom |-> darkFrom, head |-> head, tail |-> tail]
  /\ position = 0
  /\ isExtracting = FALSE
  /\ vpc = "idle"
  /\ time = 0
  /\ seeksIssued = 0
  /\ seeksAnswered = 0
  /\ seeksAborted = 0
  /\ userSeeking = FALSE
  /\ probes = <<>>
  /\ canvasImage = <<>>
  /\ lastFrame = NoFrame
  /\ runs = 0
  /\ sampleRate = 10
  /\ buffer = <<0>>
  /\ maxDur = 30 * TPS(sampleRate)
  /\ Mounted
  /\ NoWav
  /\ NoWaveform

NextVideo == extractLastFrame \/ onseeked \/ toBlobCallback

SpecVideo == InitVideo /\ [][NextVideo]_vars

\* every seek is answered by a seeked event and canvas.toBlob calls back
FairSpecVideo ==
  InitVideo /\ [][NextVideo]_vars /\ WF_vars(onseeked) /\ WF_vars(toBlobCallback)

\* ------------------------------------------- VideoProcessor: <video controls>
\* where the user drops the playhead: the start, the first dark frame, the end
UserSeekTargets(v) == {0, v.darkFrom, v.duration}

\* a seek through the controls of <video controls>, between two runs; it
\* replaces the seek in progress, if any
userSeek ==
  /\ vpc = "idle"
  /\ ~isExtracting
  /\ \E p \in UserSeekTargets(video) :
       /\ p # position
       /\ position' = p
  /\ userSeeking' = TRUE
  /\ seeksAborted' = seeksAborted + Outstanding
  /\ UNCHANGED <<video, isExtracting, vpc, time, seeksIssued, seeksAnswered, probes, canvasImage,
                 lastFrame, runs, audioVars, wavVars, waveVars>>

\* a seeked event while no run waits for one.  video.onseeked is assigned by
\* findGoodFrame and never cleared, so the closure of the last findGoodFrame
\* call runs again: it draws and measures the frame, then either calls
\* findGoodFrame(time - 0.1) or canvas.toBlob, whose resolve(...) finds the
\* promise of the finished run settled and changes nothing.  Before the first
\* run there is no handler.
onseeked_afterRun ==
  /\ vpc = "idle"
  /\ userSeeking \/ Outstanding > 0
  /\ IF userSeeking
       THEN userSeeking' = FALSE /\ UNCHANGED seeksAnswered
       ELSE seeksAnswered' = seeksAnswered + 1 /\ UNCHANGED userSeeking
  /\ IF seeksIssued = 0
       THEN UNCHANGED <<canvasImage, time, position, seeksIssued>>
       ELSE /\ canvasImage' = [at |-> position, pixels |-> FrameAt(video, position)]
            /\ IF BacksUp(canvasImage'.pixels, time)
                 THEN /\ time' = RetryTime(time)
                      /\ position' = SeekPosition(time', video.duration)
                      /\ seeksIssued' = seeksIssued + 1
                 ELSE UNCHANGED <<time, position, seeksIssued>>
  /\ UNCHANGED <<video, isExtracting, vpc, seeksAborted, probes, lastFrame, runs, audioVars, wavVars, waveVars>>

NextVideoControls ==
  \/ extractLastFrame
  \/ onseeked
  \/ toBlobCallback
  \/ userSeek
  \/ onseeked_afterRun

\* the clips long enough for the prober to back up at least three times
InitVideoControls == InitVideo /\ video.duration >= ForcedAccept + 3 * RetryStep

SpecVideoControls == InitVideoControls /\ [][NextVideoControls]_vars

\* ------------------------------------------------------- waveform effects
MaxWaveSamples == 5
MaxWidth == 4

\* const step = Math.ceil(buffer.length / width)
WaveStep(n, width) == (n + width - 1) \div width

\* for (let j = 0; j < step; j++) { const datum = data[i * step + j];
\*   if (datum < min) min = datum; if (datum > max) max = datum; }
\* a read past the end gives undefined, which compares false both ways
RECURSIVE ScanColumn(_, _, _, _, _, _)
ScanColumn(data, i, step, j, min, max) ==
  IF j >= step THEN [min |-> min, max |-> max]
  ELSE IF i * step + j >= Len(data) THEN ScanColumn(data, i, step, j + 1, min, max)
  ELSE LET datum == data[i * step + j + 1] IN
         ScanColumn(data, i, step, j + 1,
                    IF datum < min THEN datum ELSE min,
                    IF datum > max THEN datum ELSE max)

\* for (let i = 0; i < width; i++) { let min = 1.0; let max = -1.0; ...; moveTo; lineTo }
DrawColumns(data, width) ==
  [x \in 1..width |-> ScanColumn(data, x - 1, WaveStep(Len(data), width), 0, SampleDen, 0 - SampleDen)]

\* data.subarray(startIdx, endIdx)
Subarray(data, startIdx, endIdx) ==
  LET b == Min(startIdx, Len(data))
      e == Max(b, Min(endIdx, Len(data)))
  IN [k \in 1..(e - b) |-> data[b + k]]

\* AudioProcessor: the effect on asset.buffer draws channel 0 whole
drawWaveform ==
  /\ ~columns.drawn
  /\ columns' = [drawn |-> TRUE, effect |-> "buffer", error |-> "none",
                 lines |-> DrawColumns(source.channels[1], canvasWidth)]
  /\ UNCHANGED <<canvasWidth, audioVars, wavVars, videoVars>>

\* AudioSegmentPreview: the effect on (parentBuffer, start, end) draws the segment's samples
drawSegmentWaveform ==
  /\ ~columns.drawn
  /\ columns' = [drawn |-> TRUE, effect |-> "segment", error |-> "none",
                 lines |-> DrawColumns(Subarray(source.channels[1], sliceStart \div SubTicks,
                                                sliceEnd \div SubTicks), canvasWidth)]
  /\ UNCHANGED <<canvasWidth, audioVars, wavVars, videoVars>>

InitWave ==
  /\ \E len \in 1..MaxWaveSamples, n0 \in SampleNums, stride \in SampleStrides :
       source = MkAudioBuffer(1, len, 10, n0, stride)
  /\ abuffer = source
  /\ sliceStart \in SliceTimes(source)
  /\ sliceEnd \in SliceTimes(source)
  /\ sliceOutcome = "pending"
  /\ wav = Unwritten
  /\ canvasWidth \in 1..MaxWidth
  /\ columns = Undrawn
  /\ sampleRate = 10
  /\ buffer = <<0>>
  /\ maxDur = 30 * TPS(sampleRate)
  /\ Mounted
  /\ NoVideo

NextWave == drawWaveform \/ drawSegmentWaveform

SpecWave == InitWave /\ [][NextWave]_vars

\* the synchronous loop of autoDetectSplits runs to completion; so does generateSegments
FairSpecFind ==
  /\ InitTerm
  /\ [][NextFind]_vars
  /\ WF_vars(autoDetectSplits_iter)
  /\ WF_vars(autoDetectSplits_end)

\* ------------------------------------------------------------ properties
\* [0, *splitPoints, duration]
Boundaries(a) == <<0>> \o a.splitPoints \o <<a.duration>>

\* the split list just returned by autoDetectSplits is in asset.splitPoints
AutoDetectReturned == pc = "idle" /\ Last(history) = "autoDetectSplits"

\* generateSegments just stored its segments, computed from a list autoDetectSplits produced
SlicedAfterAutoDetect == pc = "idle" /\ history = <<"autoDetectSplits", "generateSegments">>

\* the cursor the k-th split of a list was searched from
CursorOf(sp, k) == IF k = 1 THEN 0 ELSE sp[k - 1]

\* C1: in [0, *S, duration], S the list returned by autoDetectSplits, consecutive
\* boundaries are at most maxSegmentSeconds apart, the tail to duration included.
C1_SegmentsBounded ==
  AutoDetectReturned =>
    LET B == Boundaries(asset) IN
      \A i \in 1..(Len(B) - 1) : B[i + 1] - B[i] <= maxDur

C1_Witness ==
  /\ AutoDetectReturned
  /\ Len(asset.splitPoints) >= 1
  /\ asset.splitPoints[1] < maxDur
  /\ asset.duration - asset.splitPoints[Len(asset.splitPoints)] = maxDur

\* C2: the list returned by autoDetectSplits is strictly ascending and every
\* point t satisfies 0 < t < duration.
C2_StrictlyAscendingInside ==
  AutoDetectReturned =>
    LET sp == asset.splitPoints IN
      /\ \A i \in 1..Len(sp) : 0 < sp[i] /\ sp[i] < asset.duration
      /\ \A i \in 1..(Len(sp) - 1) : sp[i] < sp[i + 1]

C2_Witness ==
  /\ AutoDetectReturned
  /\ Len(asset.splitPoints) >= 3
  /\ asset.splitPoints[Len(asset.splitPoints)] + 1 = asset.duration

\* C4: the cursor loop terminates: every iteration appends one point and moves
\* the cursor strictly forward, and a started loop reaches its exit.
C4_LoopTerminates ==
  /\ [][(pc = "find" /\ pc' = "find") =>
          (currentPos' > currentPos /\ Len(newSplits') = Len(newSplits) + 1)]_vars
  /\ (pc = "find") ~> (pc = "idle")

C4_Witness ==
  /\ AutoDetectReturned
  /\ Len(asset.splitPoints) >= 4

\* maxSegmentSeconds is at least one second and a whole number of sample periods
WholeSamplesAtLeastOneSecond == maxDur >= TPS(sampleRate) /\ maxDur % SubTicks = 0

\* C5 as stated: every split point is at least 1.0 second later than the cursor
\* it was searched from, for every maxSegmentSeconds > 0.
C5_Original ==
  [][(pc = "find" /\ pc' = "find") => currentPos' >= currentPos + TPS(sampleRate)]_vars

\* C5 amended: when maxSegmentSeconds is at least one second and a whole number
\* of sample periods, every split point is at least 1.0 second later than the
\* cursor it was searched from.
C5_OneSecondApart ==
  [][(pc = "find" /\ pc' = "find" /\ WholeSamplesAtLeastOneSecond)
       => currentPos' >= currentPos + TPS(sampleRate)]_vars

C5_Witness ==
  /\ pc = "find"
  /\ WholeSamplesAtLeastOneSecond
  /\ Len(newSplits) >= 2
  /\ newSplits[2] - newSplits[1] = TPS(sampleRate)
  /\ newSplits[2] < newSplits[1] + maxDur

\* sum of |buffer[s .. s+n-1]| (0-based sample indices), from the last sample down
RECURSIVE SumAbs(_, _, _)
SumAbs(buf, s, n) ==
  IF n = 0 THEN 0
  ELSE (IF buf[s + 1] < 0 THEN 0 - buf[s + 1] ELSE buf[s + 1]) + SumAbs(buf, s + 1, n - 1)

\* start samples of the probe chunks of the window searched from cursor cur that
\* lie completely inside the buffer
CompleteChunks(buf, sr, cur, md) ==
  {s \in StartSample(cur, md, sr)..(EndSample(cur, md) - 1) :
     /\ (s - StartSample(cur, md, sr)) % ChunkSize(sr) = 0
     /\ s + ChunkSize(sr) <= Len(buf)}

\* t is the start time of the earliest minimum-energy complete chunk, or the
\* default cur + maxDur when there is no complete chunk
IsQuietestChunk(buf, sr, cur, md, t) ==
  LET C == CompleteChunks(buf, sr, cur, md) IN
    IF C = {} THEN t = cur + md
    ELSE \E s \in C :
           /\ t = s * SubTicks
           /\ \A r \in C : SumAbs(buf, s, ChunkSize(sr)) <= SumAbs(buf, r, ChunkSize(sr))
           /\ \A r \in C : SumAbs(buf, r, ChunkSize(sr)) = SumAbs(buf, s, ChunkSize(sr)) => s <= r

\* C6: every appended candidate is the start of the earliest complete probe chunk
\* of minimal channel-0 energy in the window, or cursor + maxSegmentSeconds when
\* the window holds no complete chunk.
C6_QuietestChunkChosen ==
  [][(pc = "find" /\ pc' = "find") =>
       /\ newSplits' = Append(newSplits, currentPos')
       /\ IsQuietestChunk(buffer, sampleRate, currentPos, maxDur, currentPos')]_vars

\* a split was chosen among tied minima with a louder chunk before them
C6_Witness ==
  /\ pc = "find"
  /\ Len(newSplits) >= 1
  /\ LET k == Len(newSplits)
         cur == CursorOf(newSplits, k)
         C == CompleteChunks(buffer, sampleRate, cur, maxDur)
         n == ChunkSize(sampleRate) IN
       /\ \E s \in C, r \in C, q \in C :
            /\ q < s /\ s < r
            /\ newSplits[k] = s * SubTicks
            /\ SumAbs(buffer, r, n) = SumAbs(buffer, s, n)
            /\ SumAbs(buffer, q, n) > SumAbs(buffer, s, n)
       /\ \E j \in 1..Len(buffer) : buffer[j] < 0

\* the (start, end) pairs of a segment list
Pairs(segs) == [i \in 1..Len(segs) |-> <<segs[i].start, segs[i].end>>]

\* the consecutive pairs of a boundary list
RECURSIVE LongPairs(_, _, _)
LongPairs(B, i, sr) ==
  IF i >= Len(B) THEN <<>>
  ELSE (IF 10 * (B[i + 1] - B[i]) >= TPS(sr) THEN << <<B[i], B[i + 1]>> >> ELSE <<>>)
       \o LongPairs(B, i + 1, sr)

\* C8 as stated: with maxSegmentSeconds >= duration autoDetectSplits returns the
\* empty list and generateSegments on it stores exactly one segment (0, duration).
C8_Original ==
  (pc = "idle" /\ maxDur >= asset.duration) =>
    /\ Last(history) = "autoDetectSplits" => asset.splitPoints = <<>>
    /\ SlicedAfterAutoDetect => Pairs(asset.segments) = << <<0, asset.duration>> >>

\* C8 amended: with maxSegmentSeconds >= duration autoDetectSplits returns the
\* empty list; generateSegments on it stores exactly one segment (0, duration)
\* when duration >= 0.1s and no segment when duration < 0.1s.
C8_NoSplitOneSegment ==
  (pc = "idle" /\ maxDur >= asset.duration) =>
    /\ Last(history) = "autoDetectSplits" => asset.splitPoints = <<>>
    /\ SlicedAfterAutoDetect =>
         IF 10 * asset.duration >= TPS(sampleRate)
         THEN Pairs(asset.segments) = << <<0, asset.duration>> >>
         ELSE asset.segments = <<>>

C8_Witness ==
  /\ SlicedAfterAutoDetect
  /\ maxDur >= asset.duration
  /\ 10 * asset.duration = TPS(sampleRate)
  /\ Len(asset.segments) = 1

\* C9: generateSegments emits, in time order and once each, exactly the
\* consecutive pairs of [0, *splits, duration] that are at least 0.1s long; the
\* emitted segments do not overlap, ascend, and cover [0, duration] except for
\* the dropped gaps shorter than 0.1s.
C9_SegmentsPartition ==
  SlicedAfterAutoDetect =>
    LET B == Boundaries(asset)
        P == Pairs(asset.segments) IN
      /\ P = LongPairs(B, 1, sampleRate)
      /\ \A i \in 1..Len(P) : P[i][1] < P[i][2]
      /\ \A i \in 1..(Len(P) - 1) : P[i][2] <= P[i + 1][1]
      /\ \A i \in 1..(Len(B) - 1) :
           \/ \E j \in 1..Len(P) : P[j] = <<B[i], B[i + 1]>>
           \/ 10 * (B[i + 1] - B[i]) < TPS(sampleRate)
      /\ \A i \in 1..Len(P), j \in 1..Len(P) : P[i] = P[j] => i = j

C9_Witness ==
  /\ SlicedAfterAutoDetect
  /\ Len(asset.segments) >= 2
  /\ Len(asset.segments) < Len(asset.splitPoints) + 1

\* C3: after any sequence of addSplitPoint, removeSplitPoint, adjustSplitPoint
\* and autoDetectSplits, asset.splitPoints is strictly ascending, without
\* duplicates, and every element t satisfies 0 < t < asset.duration.
C3_SplitPointsValid ==
  LET sp == asset.splitPoints IN
    /\ \A i \in 1..Len(sp) : 0 < sp[i] /\ sp[i] < asset.duration
    /\ \A i \in 1..(Len(sp) - 1) : sp[i] < sp[i + 1]
    /\ \A i \in 1..Len(sp), j \in 1..Len(sp) : sp[i] = sp[j] => i = j

\* C7 as stated: with maxSegmentSeconds = 10 a 35-second buffer gets exactly 3
\* split points.
C7_Original ==
  AutoDetectReturned => Len(asset.splitPoints) = 3

\* C7 amended: with maxSegmentSeconds = 10 a 35-second buffer gets at least 3 and
\* at most 5 split points, exactly 3 if and only if the third point is at 25s or
\* later.
C7_ThreeToFiveSplits ==
  AutoDetectReturned =>
    LET sp == asset.splitPoints IN
      /\ 3 <= Len(sp) /\ Len(sp) <= 5
      /\ Len(sp) = 3 <=> sp[3] >= 25 * TPS(sampleRate)

C7_Witness ==
  /\ AutoDetectReturned
  /\ asset.duration = 35 * TPS(sampleRate)
  /\ maxDur = 10 * TPS(sampleRate)
  /\ Len(asset.splitPoints) = 3
  /\ asset.splitPoints[1] = (96 * TPS(sampleRate)) \div 10

\* the value the stated conversion gives: clamp to [-1, 1], negative values times
\* 32768, non-negative values times 32767, truncated toward zero
StatedQuantize(n) ==
  LET c == IF n < 0 - SampleDen THEN 0 - SampleDen ELSE IF n > SampleDen THEN SampleDen ELSE n IN
    IF c < 0 THEN 0 - ((0 - c * 32768) \div SampleDen) ELSE (c * 32767) \div SampleDen

\* C10: every data word of the WAV is the clamped sample scaled by 32768 when
\* negative and by 32767 otherwise, truncated toward zero, within
\* [-32768, 32767], the channels of a frame interleaved in channel order.
C10_Original ==
  wav.written =>
    /\ Len(wav.data) = abuffer.length * abuffer.numberOfChannels
    /\ \A f \in 1..abuffer.length, c \in 1..abuffer.numberOfChannels :
         LET w == wav.data[(f - 1) * abuffer.numberOfChannels + c] IN
           /\ w = StatedQuantize(abuffer.channels[c][f])
           /\ 0 - 32768 <= w /\ w <= 32767

\* ------------------------------------------------- bufferToWav, sliceAudio
\* C11: the WAV of a buffer of numChannels channels and frameCount frames is
\* 44 + dataBytes bytes long, dataBytes = frameCount * numChannels * 2, all of
\* them written, and its header holds format tag 1, numChannels, 16 bits per
\* sample, ChunkSize = dataBytes + 36, ByteRate = sampleRate * numChannels * 2,
\* BlockAlign = numChannels * 2 and Subchunk2Size = dataBytes.
C11_HeaderAndLength ==
  wav.written =>
    LET dataBytes == abuffer.length * abuffer.numberOfChannels * 2 IN
      /\ wav.length = 44 + dataBytes
      /\ 2 * Len(wav.data) = dataBytes
      /\ wav.header.audioFormat = 1
      /\ wav.header.numChannels = abuffer.numberOfChannels
      /\ wav.header.bitsPerSample = 16
      /\ wav.header.chunkSize = dataBytes + 36
      /\ wav.header.sampleRate = abuffer.sampleRate
      /\ wav.header.byteRate = abuffer.sampleRate * abuffer.numberOfChannels * 2
      /\ wav.header.blockAlign = abuffer.numberOfChannels * 2
      /\ wav.header.subchunk2Size = dataBytes

C11_Witness ==
  /\ wav.written
  /\ sliceOutcome = "pending"
  /\ abuffer.numberOfChannels = 2
  /\ abuffer.length = 2
  /\ abuffer.sampleRate = 30
  /\ wav.length = 52

\* the sample the slice is to hold at its 0-based frame i of channel c: the
\* source sample at index floor(start * sampleRate) + i, silence past the end
SourceAt(c, i) ==
  LET idx == (sliceStart \div SubTicks) + i IN
    IF idx < source.length THEN source.channels[c][idx + 1] ELSE 0

SliceIsCopy ==
  /\ sliceOutcome = "resolved"
  /\ abuffer.numberOfChannels = source.numberOfChannels
  /\ abuffer.sampleRate = source.sampleRate
  /\ abuffer.length = (sliceEnd - sliceStart) \div SubTicks
  /\ \A c \in 1..abuffer.numberOfChannels :
       /\ Len(abuffer.channels[c]) = abuffer.length
       /\ \A i \in 0..(abuffer.length - 1) : abuffer.channels[c][i + 1] = SourceAt(c, i)

\* C12 as stated: for every start < end sliceAudio produces, per source
\* channel, floor((end - start) * sampleRate) frames copied from index
\* floor(start * sampleRate) on, silence past the source's end, and never fails.
C12_Original ==
  (sliceOutcome # "pending" /\ sliceStart < sliceEnd) => SliceIsCopy

\* C12: for start < end spanning at least one sample period, sliceAudio
\* produces, per source channel, floor((end - start) * sampleRate) frames
\* copied from index floor(start * sampleRate) on, silence past the source's
\* end; for start < end spanning less than one sample period it fails in
\* createBuffer (NotSupportedError) and builds no WAV.
C12_SliceCopiesOrFails ==
  (sliceOutcome # "pending" /\ sliceStart < sliceEnd) =>
    IF sliceEnd - sliceStart >= SubTicks
      THEN SliceIsCopy
      ELSE sliceOutcome = "NotSupportedError" /\ ~wav.written

C12_Witness ==
  /\ sliceOutcome = "resolved"
  /\ sliceStart < sliceEnd
  /\ sliceStart % SubTicks # 0
  /\ abuffer.length >= 2
  /\ \E i \in 0..(abuffer.length - 1) :
       /\ (sliceStart \div SubTicks) + i < source.length
       /\ abuffer.channels[1][i + 1] # 0
  /\ \E i \in 0..(abuffer.length - 1) :
       /\ (sliceStart \div SubTicks) + i >= source.length
       /\ abuffer.channels[1][i + 1] = 0
       /\ source.channels[1][source.length] # 0

\* a PCM reader: the frames per channel announced by the header, and the
\* sample of channel c, frame f as the numerator of word / 32768
DecodedFrames == wav.header.subchunk2Size \div wav.header.blockAlign
DecodedWord(c, f) == wav.data[(f - 1) * wav.header.numChannels + c]

\* |n / SampleDen - w / 32768| <= 1/32767, i.e. |32768 n - SampleDen w| <=
\* SampleDen * 32768 / 32767; the left side is an integer and SampleDen < 32767
WithinOneStep(n, w) == Abs(32768 * n - SampleDen * w) <= SampleDen

\* |n / SampleDen - w / 32768| < 2/32768
WithinTwoSteps(n, w) == Abs(32768 * n - SampleDen * w) < 2 * SampleDen

C14_Original ==
  (sliceOutcome # "pending" /\ sliceEnd <= sliceStart) =>
    (sliceOutcome = "InvalidRange" /\ ~wav.written)

\* -------------------------------------------------------- extractLastFrame
\* avgBrightness >= 10: the sum over the pixels of (R + G + B) / 3, divided by
\* the pixel count, compared in thirds
RECURSIVE SumRGB(_)
SumRGB(pixels) ==
  IF pixels = <<>> THEN 0
  ELSE pixels[1][1] + pixels[1][2] + pixels[1][3] + SumRGB(Tail(pixels))

AvgBrightnessAtLeast10(pixels) == SumRGB(pixels) >= 3 * 10 * Len(pixels)

\* C15: a frame probed at cursor t is accepted iff avgBrightness >= 10 or
\* t <= 0.5; in every other case the prober retries: it stays in the seek
\* loop, moves the cursor to exactly t - 0.1 and issues one seek.
C15_AcceptOrRetry ==
  [][seeksAnswered' # seeksAnswered =>
       LET accepted == vpc' = "encoding" IN
         /\ canvasImage'.pixels = FrameAt(video, position)
         /\ accepted <=> (AvgBrightnessAtLeast10(canvasImage'.pixels) \/ time <= 50)
         /\ accepted => (time' = time /\ seeksIssued' = seeksIssued)
         /\ ~accepted => (vpc' = "seeking" /\ time' = time - 10 /\ seeksIssued' = seeksIssued + 1)]_vars

C15_Witness ==
  /\ vpc = "encoding"
  /\ Len(probes) >= 2
  /\ probes[1].dark
  /\ time > 50
  /\ canvasImage.pixels = EdgeFrame

\* the seeks of the current run: the frames probed and the seek under way
SeeksOfRun == Len(probes) + (seeksIssued - seeksAnswered)

\* the grid points above 0.5s, plus the one that is accepted at the latest
MaxSeeks(duration) ==
  IF duration - 5 <= 50 THEN 1 ELSE 1 + ((duration - 5 - 50) + 9) \div 10

\* C16: with every seek answered, a run never issues more than
\* 1 + ceil((duration - 0.05 - 0.5) / 0.1) seeks and always reaches acceptance
\* (canvas.toBlob), whatever the frames are.
C16_ReachesAcceptance ==
  /\ [](vpc # "idle" => SeeksOfRun <= MaxSeeks(video.duration))
  /\ (vpc = "seeking") ~> (vpc = "encoding")

C16_Witness ==
  /\ vpc = "encoding"
  /\ video.head = BlackFrame
  /\ video.tail = BlackFrame
  /\ Len(probes) >= 4
  /\ Len(probes) = MaxSeeks(video.duration)
  /\ time <= 50

\* the retry grid t0, t0 - 0.1, ... and acceptance of its j-th point
GridPoint(j) == (video.duration - 5) - 10 * j
GridFrame(j) == FrameAt(video, SeekPosition(GridPoint(j), video.duration))
GridAccepts(j) == AvgBrightnessAtLeast10(GridFrame(j)) \/ GridPoint(j) <= 50
MaxGridIndex == MaxVideoCs \div 10 + 1

\* C17: the timestamp returned is the first point of the grid t0, t0 - 0.1, ...
\* whose frame has avgBrightness >= 10 or which is <= 0.5; the points probed
\* before it were dark and > 0.5; the image returned is the frame the video
\* showed at the returned timestamp.
C17_FirstAcceptableGridPoint ==
  lastFrame.set =>
    /\ \E j \in 0..MaxGridIndex :
         /\ lastFrame.timestamp = GridPoint(j)
         /\ GridAccepts(j)
         /\ \A i \in 0..(j - 1) : ~GridAccepts(i)
         /\ lastFrame.image.pixels = GridFrame(j)
         /\ lastFrame.image.at = SeekPosition(GridPoint(j), video.duration)
    /\ (vpc = "idle") =>
         /\ probes # <<>>
         /\ probes[Len(probes)].time = lastFrame.timestamp
         /\ \A i \in 1..(Len(probes) - 1) :
              /\ probes[i].time = GridPoint(i - 1)
              /\ probes[i].dark
              /\ probes[i].time > 50

C17_Witness ==
  /\ lastFrame.set
  /\ vpc = "idle"
  /\ Len(probes) >= 3
  /\ ~probes[Len(probes)].dark
  /\ lastFrame.timestamp > 50
  /\ lastFrame.timestamp < video.darkFrom

\* C18 as stated: the cursor starts at duration - 0.05 clamped to >= 0, so the
\* first seek time and any returned timestamp are never negative.
C18_Original ==
  /\ (vpc = "seeking" /\ probes = <<>>) => (time = Max(0, video.duration - 5) /\ time >= 0)
  /\ lastFrame.set => lastFrame.timestamp >= 0

\* C19: during a run at most one seek is outstanding, and a seek is issued
\* only when every earlier seek has been answered: by the click with none
\* under way, or inside the seeked callback of the previous seek.
C19_OneSeekAtATime ==
  /\ [](seeksIssued - seeksAnswered <= 1)
  /\ [][seeksIssued' # seeksIssued =>
          /\ seeksIssued' = seeksIssued + 1
          /\ seeksAnswered' = seeksIssued]_vars

C19_Witness ==
  /\ vpc = "seeking"
  /\ runs = 2
  /\ Len(probes) >= 2
  /\ seeksIssued = seeksAnswered + 1

\* ---------------------------------------------------------- waveform effects
\* the samples the effect summarises: the whole channel, or the segment's part
\* of it; which of the two was drawn is told by the number of samples
WholeChannel == source.channels[1]
SegmentSamples ==
  LET n == Len(source.channels[1])
      first == Min(sliceStart \div SubTicks, n)
      last == Max(first, Min(sliceEnd \div SubTicks, n))
  IN [k \in 1..(last - first) |-> source.channels[1][first + k]]

\* the 0-based sample indices of column i: [i*step, i*step + step) clipped to the end
ColumnIndices(n, width, i) ==
  LET step == (n + width - 1) \div width IN
    {k \in (i * step)..(i * step + step - 1) : k < n}

SummaryOf(data, lines) ==
  /\ Len(lines) = canvasWidth
  /\ \A i \in 0..(canvasWidth - 1) :
       LET idx == ColumnIndices(Len(data), canvasWidth, i) IN
         IF idx = {} THEN lines[i + 1] = [min |-> 0, max |-> 0]
         ELSE /\ \E k \in idx : lines[i + 1].min = data[k + 1]
              /\ \A k \in idx : lines[i + 1].min <= data[k + 1]
              /\ \E k \in idx : lines[i + 1].max = data[k + 1]
              /\ \A k \in idx : lines[i + 1].max >= data[k + 1]

\* C20 as stated: the summarizer emits canvas.width columns with step =
\* ceil(sampleCount / width); column i holds the true minimum and maximum of
\* its samples, and a column with no samples holds {min: 0, max: 0}.
C20_Original ==
  columns.drawn =>
    \/ SummaryOf(WholeChannel, columns.lines)
    \/ SummaryOf(SegmentSamples, columns.lines)

\* the bounds of a segment clamped to the buffer: Math.max(0, Math.min(duration, t))
ClampedStart == ClampTime(sliceStart, source.length * SubTicks)
ClampedEnd == ClampTime(sliceEnd, source.length * SubTicks)

\* C21 as stated: the segment summarizer fails with InvalidRange and emits no
\* peak pairs whenever the end is not after the start once both are clamped to
\* [0, duration].
C21_Original ==
  (columns.drawn /\ columns.effect = "segment" /\ ClampedEnd <= ClampedStart) =>
    (columns.error = "InvalidRange" /\ columns.lines = <<>>)

\* ------------------------------------------------- autoDetectSplits' update
\* the step in which autoDetectSplits calls onUpdate
AutoDetectStores == pc = "find" /\ pc' = "idle"

TogglePlayOf(id) ==
  /\ pc = "idle" /\ pc' = "idle"
  /\ ended' = ended
  /\ asset' = asset
  /\ activePlayingId' = Toggled(activePlayingId, id)
  /\ <<activePlayingId, playing>> # <<activePlayingId', playing'>>

\* the step delivers an ended event
EndedDelivered == ended' # ended /\ ended' \subseteq ended /\ asset' = asset

\* C23: at most one audio source plays in any reachable state; play(id) on an
\* id that is not the active one makes id the only playing source; toggling
\* the active id stops it; the natural end of the active source leaves no
\* source playing.
C23_OneSourcePlays ==
  /\ [](Cardinality(playing) <= 1)
  /\ [][\A id \in AudioElements(asset) :
          (TogglePlayOf(id) /\ activePlayingId # id) => playing' = {id}]_vars
  /\ [][\A id \in AudioElements(asset) :
          (TogglePlayOf(id) /\ activePlayingId = id) => playing' = {}]_vars
  /\ [][EndedDelivered => playing' = {}]_vars

\* on an asset cut into two segments the second one plays alone, the first
\* having played to its end
C23_Witness ==
  /\ Len(asset.segments) = 2
  /\ activePlayingId = SegmentId(asset.segments[2].id)
  /\ playing = {activePlayingId}
  /\ ended = {SegmentId(asset.segments[1].id)}

\* the ids of the segments currently in asset.segments
SegmentIds == {SegmentId(asset.segments[i].id) : i \in 1..Len(asset.segments)}

\* C29 as stated: activePlayingId is null, 'original', or the id of a segment
\* currently in asset.segments.
C29_Original == activePlayingId \in {Null, Original} \cup SegmentIds

\* ------------------------------------------------ segments and boundaries
\* (start, end) is a pair of consecutive elements of the boundary list
ConsecutivePair(b, start, end) ==
  \E i \in 1..(Len(b) - 1) : b[i] = start /\ b[i + 1] = end

\* C26 as stated: whenever asset.segments is non-empty, every stored segment's
\* (start, end) is a pair of consecutive elements of the current boundary list
\* [0, *splitPoints, duration].
C26_Original ==
  \A k \in 1..Len(asset.segments) :
    ConsecutivePair(Boundaries(asset), asset.segments[k].start, asset.segments[k].end)

\* ------------------------------------------------- extractLastFrame's exits
\* C28 as stated: every invocation of extractLastFrame that sets isExtracting
\* to true eventually sets it back to false, on every exit path (accepted
\* frame, failed encoding, missing 2D context).
C28_Original == isExtracting ~> ~isExtracting

\* a run has accepted a frame and returned, and no click follows in this step
AcceptedAndReturned ==
  /\ vpc = "idle" /\ vpc' = "idle"
  /\ ~isExtracting
  /\ lastFrame.set
  /\ runs' = runs

\* C25 as stated: once extractLastFrame has accepted a frame and returned, no
\* later seeked event (for example of a seek made through the controls) makes
\* the prober evaluate another frame, issue another seek, or change
\* video.currentTime.
C25_Original ==
  [][AcceptedAndReturned =>
       /\ canvasImage' = canvasImage
       /\ seeksIssued' = seeksIssued
       /\ time' = time]_vars

\* ------------------------------------------------------- handleAudioUpload
\* the step in which the catch branch of upload u runs
UploadFails(u) == uploads[u].phase = "decoding" /\ uploads'[u].phase = "failed"

\* C24 as stated: when decoding fails, the app state after handleAudioUpload
\* ends has status = ERROR and a non-null error message, and state.audio is
\* the value it had before the upload started.
C24_Original ==
  [][\A u \in 1..MaxUploads :
       UploadFails(u) =>
         /\ state'.status = "ERROR"
         /\ state'.error # Null
         /\ state'.audio = uploads[u].before]_vars

\* C24, amended: when decoding fails, the app state after handleAudioUpload
\* ends has status = ERROR and a non-null error message, and the failed upload
\* has not touched state.audio; it is the value it had before the upload
\* started unless another upload stored its asset in the meantime.
C24_FailedUploadKeepsAudio ==
  [][\A u \in 1..MaxUploads :
       UploadFails(u) =>
         /\ state'.status = "ERROR"
         /\ state'.error # Null
         /\ state'.audio = state.audio
         /\ state'.video = state.video
         /\ ~uploads[u].overtaken => state'.audio = uploads[u].before]_vars

\* the first file failed to decode after the second one, dropped meanwhile,
\* had been decoded and stored
C24_Witness ==
  /\ uploads[1].phase = "failed"
  /\ uploads[2].phase = "completed"
  /\ state.status = "ERROR"
  /\ state.error = ErrorMessage
  /\ state.audio = AudioAssetOf(2)

\* -------------------------------------------- the sample ranges of segments
\* the source indices sliceAudio copies for the k-th stored segment:
\* [floor(start * sr), floor(start * sr) + floor((end - start) * sr))
RangeStart(k) == SliceOffset(asset.segments[k].start)
RangeEnd(k) ==
  SliceOffset(asset.segments[k].start) + FrameCount(asset.segments[k].start, asset.segments[k].end)

\* no two emitted segments share a source sample
RangesDisjoint ==
  \A i \in 1..Len(asset.segments), j \in 1..Len(asset.segments) :
    i < j => RangeEnd(i) <= RangeStart(j)

\* C30 as stated: the source sample ranges of two different emitted segments
\* never overlap, and between two adjacent emitted segments at most one source
\* sample is skipped.
C30_Original ==
  /\ RangesDisjoint
  /\ \A k \in 1..(Len(asset.segments) - 1) : RangeStart(k + 1) - RangeEnd(k) <= 1

\* C30, amended: the ranges of two different emitted segments never overlap;
\* between two adjacent emitted segments that share a boundary at most one
\* source sample is skipped, and between two that are separated by dropped
\* boundary pairs (shorter than 0.1s) at most one sample more than lies between
\* the end of the first and the start of the second.
C30_RangesDisjointGapBounded ==
  /\ RangesDisjoint
  /\ \A k \in 1..(Len(asset.segments) - 1) :
       LET a == asset.segments[k]
           b == asset.segments[k + 1]
       IN /\ a.end <= b.start
          /\ a.end = b.start => RangeStart(k + 1) - RangeEnd(k) <= 1
          /\ RangeStart(k + 1) - RangeEnd(k) <= SliceOffset(b.start) - SliceOffset(a.end) + 1

\* three segments were cut, the last two sharing a boundary, with one sample
\* skipped between them
C30_Witness ==
  /\ pc = "idle"
  /\ Len(asset.segments) = 3
  /\ asset.segments[2].end = asset.segments[3].start
  /\ RangeStart(3) - RangeEnd(2) = 1

====
